---- MODULE Spec2Model ----
(***************************************************************************)
(* Power-bank rental backend: the rental ledgers of the repository's       *)
(* variants, each modelled from its own source file.                       *)
(*                                                                         *)
(*   variant "config"   src/app/config.py          (FastAPI, in-memory)    *)
(*   variant "rmodels"  src/app/rentals/models.py  (FastAPI, in-memory)    *)
(*   variant "init"     src/app/__init__.py        (FastAPI, in-memory)    *)
(*   variant "pbmodels" src/app/powerbanks/models.py (ORM methods)         *)
(*   variant "run"      src/run.py                 (Flask + SQLAlchemy)    *)
(*   variant "routes"   src/app/rentals/routes.py, powerbanks/routes.py    *)
(*   variant "stations" src/app/stations/routes.py (FastAPI + SQLAlchemy)  *)
(*   variant "ext"      src/app/extensions.py      (Flask + SQLAlchemy)    *)
(*                                                                         *)
(* The variable `variant` is fixed by Init and selects which program runs; *)
(* every action is guarded by the variant whose handler it models.  Free   *)
(* text fields that no handler ever reads (location, name, address) are    *)
(* not part of the records.  `resp` is the answer to the request handled   *)
(* last: the HTTP status code with the error detail or message, or, for a  *)
(* FastAPI handler that returns an object, the name of that object.        *)
(***************************************************************************)
EXTENDS Integers, Sequences, FiniteSets, TLC

\* ------------------------------------------------------------------ bounds
MaxRentals == 2
MaxPowerbanks == 4
MaxStations == 3
MaxTime == 1
MaxAvail == 1
NProc == 3
MaxUsers == 2
MaxCharge == 1
MaxRows == 2
MaxRunStations == 1
MaxCap == 2

\* Python's None for an unset end_time
None == -1

VARIABLES variant, users, stations, powerbanks, rentals, payments, now, resp, procs

vars == <<variant, users, stations, powerbanks, rentals, payments, now, resp, procs>>
data == <<users, stations, powerbanks, rentals, payments>>
\* what no request handler of the one-request-at-a-time programs writes
frame == <<variant, procs>>

\* ----------------------------------------------------------------- helpers
Min(S) == CHOOSE x \in S : \A y \in S : x <= y

\* next((x for x in seq if x["id"] == id), None): index of the first match, 0 for None
FindById(seq, id) ==
    LET S == {i \in DOMAIN seq : seq[i].id = id}
    IN  IF S = {} THEN 0 ELSE Min(S)

Statuses == {"available", "rented", "maintenance"}

\* datetime.now() / datetime.utcnow(): `now` is the last reading of the clock.
\* The clock never runs backwards and two readings may be equal, so a handler
\* that reads it gets any t in ClockReadings and leaves now = t.
ClockReadings == now..MaxTime

\* ============================================================ src/app/config.py
Config_Init ==
    /\ variant = "config"
    /\ users = <<[id |-> 1]>>
    /\ stations = << [id |-> 1, powerbanks_available |-> 2],
                     [id |-> 2, powerbanks_available |-> 1] >>
    /\ powerbanks = << [id |-> 1, station_id |-> 1, status |-> "available"],
                       [id |-> 2, station_id |-> 1, status |-> "available"],
                       [id |-> 3, station_id |-> 2, status |-> "rented"] >>
    /\ rentals = << >>
    /\ payments = << >>

\* get_current_user: always the first user
Config_get_current_user == users[1]

\* get_current_admin: only the user with id 1 passes
Config_get_current_admin == Config_get_current_user.id = 1

Config_create_station(powerbanks_available) ==
    /\ variant = "config"
    /\ IF ~Config_get_current_admin
       THEN /\ resp' = [status_code |-> 403, detail |-> "Not authorized"]
            /\ UNCHANGED <<data, now>>
       ELSE /\ Len(stations) < MaxStations
            /\ stations' = Append(stations,
                   [id |-> Len(stations) + 1, powerbanks_available |-> powerbanks_available])
            /\ resp' = [status_code |-> 200, detail |-> "new_station"]
            /\ UNCHANGED <<users, powerbanks, rentals, payments, now>>
    /\ UNCHANGED frame

\* Mutant of Config_CounterAfterCreate: the status of the new power bank is not
\* looked at.
Config_CounterAfterCreate_AnyStatus(station_id, status) ==
    LET s == FindById(stations, station_id)
    IN  IF s # 0
        THEN [stations EXCEPT ![s].powerbanks_available = @ + 1]
        ELSE stations

\* lines 135-138: the counter of the new power bank's station after the append
Config_CounterAfterCreate(station_id, status) ==
    LET s == FindById(stations, station_id)
    IN  IF status = "available" /\ s # 0
        THEN [stations EXCEPT ![s].powerbanks_available = @ + 1]
        ELSE stations

Config_create_powerbank(station_id, status) ==
    /\ variant = "config"
    /\ IF ~Config_get_current_admin
       THEN /\ resp' = [status_code |-> 403, detail |-> "Not authorized"]
            /\ UNCHANGED <<data, now>>
       ELSE /\ Len(powerbanks) < MaxPowerbanks
            /\ powerbanks' = Append(powerbanks,
                   [id |-> Len(powerbanks) + 1, station_id |-> station_id, status |-> status])
            /\ stations' = Config_CounterAfterCreate(station_id, status)
            /\ resp' = [status_code |-> 200, detail |-> "new_powerbank"]
            /\ UNCHANGED <<users, rentals, payments, now>>
    /\ UNCHANGED frame

\* Mutant of Config_RentRefused: only a rented power bank is refused.
Config_RentRefused_RentedOnly(pb) == pb.status = "rented"

\* line 149: the availability test of rent_powerbank
Config_RentRefused(pb) == pb.status # "available"

\* lines 162-164: the owning station's counter after a rent
Config_CounterAfterRent(station_id) ==
    LET s == FindById(stations, station_id)
    IN  IF s # 0 THEN [stations EXCEPT ![s].powerbanks_available = @ - 1]
        ELSE stations

\* Mutant of Config_new_rental: the id is the number of rentals, without the
\* one added.
Config_new_rental_ZeroBased(powerbank_id, t) ==
    [id |-> Len(rentals),
     user_id |-> Config_get_current_user.id,
     powerbank_id |-> powerbank_id,
     start_time |-> t,
     end_time |-> None,
     status |-> "active"]

\* Mutant of Config_new_rental: the new rental already carries an end time.
Config_new_rental_Ended(powerbank_id, t) ==
    [id |-> Len(rentals) + 1,
     user_id |-> Config_get_current_user.id,
     powerbank_id |-> powerbank_id,
     start_time |-> t,
     end_time |-> t,
     status |-> "active"]

\* lines 152-159: the rental that rent_powerbank builds at clock reading t
Config_new_rental(powerbank_id, t) ==
    [id |-> Len(rentals) + 1,
     user_id |-> Config_get_current_user.id,
     powerbank_id |-> powerbank_id,
     start_time |-> t,
     end_time |-> None,
     status |-> "active"]

Config_rent_powerbank(powerbank_id, t) ==
    /\ variant = "config"
    /\ LET p == FindById(powerbanks, powerbank_id)
       IN  IF p = 0
           THEN /\ resp' = [status_code |-> 404, detail |-> "Powerbank not found"]
                /\ UNCHANGED <<data, now>>
           ELSE IF Config_RentRefused(powerbanks[p])
           THEN /\ resp' = [status_code |-> 400, detail |-> "Powerbank not available"]
                /\ UNCHANGED <<data, now>>
           ELSE /\ Len(rentals) < MaxRentals
                /\ rentals' = Append(rentals, Config_new_rental(powerbank_id, t))
                /\ powerbanks' = [powerbanks EXCEPT ![p].status = "rented"]
                /\ stations' = Config_CounterAfterRent(powerbanks[p].station_id)
                /\ resp' = [status_code |-> 200, detail |-> "new_rental"]
                /\ now' = t
                /\ UNCHANGED <<users, payments>>
    /\ UNCHANGED frame

\* line 170: the rental with the requested id that belongs to the current user
Config_FindRental(rental_id, user_id) ==
    LET S == {i \in DOMAIN rentals :
                 rentals[i].id = rental_id /\ rentals[i].user_id = user_id}
    IN  IF S = {} THEN 0 ELSE Min(S)

\* Mutant of Config_ReturnRefused: the activity test is missing.
Config_ReturnRefused_Never(rental) == FALSE

\* line 173: the activity test of return_powerbank
Config_ReturnRefused(rental) == rental.status # "active"

\* Mutant of Config_CounterAfterReturn: every station's counter is raised.
Config_CounterAfterReturn_All(station_id) ==
    [s \in DOMAIN stations |->
        [stations[s] EXCEPT !.powerbanks_available = @ + 1]]

\* lines 180-182: the station's counter after a return
Config_CounterAfterReturn(station_id) ==
    LET s == FindById(stations, station_id)
    IN  IF s # 0 THEN [stations EXCEPT ![s].powerbanks_available = @ + 1]
        ELSE stations

\* Mutant of Config_Completed: the end time is not recorded.
Config_Completed_NoEndTime(rental, t) ==
    [rental EXCEPT !.status = "completed"]

\* lines 176-177: the rental once returned at clock reading t
Config_Completed(rental, t) ==
    [rental EXCEPT !.end_time = t, !.status = "completed"]

Config_return_powerbank(rental_id, t) ==
    /\ variant = "config"
    /\ LET r == Config_FindRental(rental_id, Config_get_current_user.id)
       IN  IF r = 0
           THEN /\ resp' = [status_code |-> 404, detail |-> "Rental not found"]
                /\ UNCHANGED <<data, now>>
           ELSE IF Config_ReturnRefused(rentals[r])
           THEN /\ resp' = [status_code |-> 400, detail |-> "Rental is not active"]
                /\ UNCHANGED <<data, now>>
           ELSE LET p == FindById(powerbanks, rentals[r].powerbank_id)
                IN  /\ rentals' = [rentals EXCEPT ![r] = Config_Completed(@, t)]
                    /\ powerbanks' = [powerbanks EXCEPT ![p].status = "available"]
                    /\ stations' = Config_CounterAfterReturn(powerbanks[p].station_id)
                    /\ resp' = [status_code |-> 200, detail |-> "rental"]
                    /\ now' = t
                    /\ UNCHANGED <<users, payments>>
    /\ UNCHANGED frame

\* lines 185-189: get_rentals, the rentals of the current user
Config_get_rentals ==
    /\ variant = "config"
    /\ LET mine(r) == r.user_id = Config_get_current_user.id
       IN  resp' = [status_code |-> 200, rentals |-> SelectSeq(rentals, mine)]
    /\ UNCHANGED <<data, now, frame>>

\* lines 191-195: get_active_rentals, the active rentals of the current user
Config_get_active_rentals ==
    /\ variant = "config"
    /\ LET mine(r) == r.user_id = Config_get_current_user.id /\ r.status = "active"
       IN  resp' = [status_code |-> 200, rentals |-> SelectSeq(rentals, mine)]
    /\ UNCHANGED <<data, now, frame>>

Config_Next ==
    \/ \E n \in 0..MaxAvail : Config_create_station(n)
    \/ \E s \in 1..MaxStations, st \in Statuses : Config_create_powerbank(s, st)
    \/ \E p \in 1..(MaxPowerbanks + 1), t \in ClockReadings : Config_rent_powerbank(p, t)
    \/ \E r \in 1..(MaxRentals + 1), t \in ClockReadings : Config_return_powerbank(r, t)
    \/ Config_get_rentals
    \/ Config_get_active_rentals

\* =================================== src/app/config.py, requests run concurrently
\* FastAPI runs `def` endpoints in a thread pool, so several handlers run at the
\* same time over the module-level lists.  Each handler is a process that takes
\* one statement of its source at a time; `x -= 1` on a dict entry is a read
\* followed by a write.  The clock does not matter here and stands still.
Procs == 1..NProc

NoRental == [id |-> 0, user_id |-> 0, powerbank_id |-> 0,
             start_time |-> None, end_time |-> None, status |-> "none"]

IdleProc == [pc |-> "idle", op |-> "none", arg |-> 0, p |-> 0, r |-> 0, s |-> 0,
             tmp |-> 0, new_rental |-> NoRental, status_code |-> 0]

ConcInit ==
    /\ now = 0
    /\ resp = [status_code |-> 0, detail |-> "none"]
    /\ Config_Init
    /\ procs = [i \in Procs |-> IdleProc]

ConcFrame == <<variant, users, payments, now, resp>>

\* a request arrives and its handler starts
Conc_call_rent(i, powerbank_id) ==
    /\ procs[i].pc = "idle"
    /\ procs' = [procs EXCEPT ![i].pc = "rent_146", ![i].op = "rent_powerbank",
                              ![i].arg = powerbank_id]
    /\ UNCHANGED <<ConcFrame, stations, powerbanks, rentals>>

Conc_call_return(i, rental_id) ==
    /\ procs[i].pc = "idle"
    /\ procs' = [procs EXCEPT ![i].pc = "return_170", ![i].op = "return_powerbank",
                              ![i].arg = rental_id]
    /\ UNCHANGED <<ConcFrame, stations, powerbanks, rentals>>

\* rent_powerbank, lines 146-150: look the power bank up and test its status
Conc_rent_146(i) ==
    /\ procs[i].pc = "rent_146"
    /\ LET p == FindById(powerbanks, procs[i].arg)
       IN  procs' = IF p = 0
                    THEN [procs EXCEPT ![i].pc = "done", ![i].status_code = 404]
                    ELSE IF Config_RentRefused(powerbanks[p])
                    THEN [procs EXCEPT ![i].pc = "done", ![i].status_code = 400]
                    ELSE [procs EXCEPT ![i].pc = "rent_152", ![i].p = p]
    /\ UNCHANGED <<ConcFrame, stations, powerbanks, rentals>>

\* lines 152-159: build the rental from len(rentals) and the clock
Conc_rent_152(i) ==
    /\ procs[i].pc = "rent_152"
    /\ procs' = [procs EXCEPT ![i].pc = "rent_160",
                    ![i].new_rental = [id |-> Len(rentals) + 1,
                                       user_id |-> Config_get_current_user.id,
                                       powerbank_id |-> procs[i].arg,
                                       start_time |-> now,
                                       end_time |-> None,
                                       status |-> "active"]]
    /\ UNCHANGED <<ConcFrame, stations, powerbanks, rentals>>

\* line 160
Conc_rent_160(i) ==
    /\ procs[i].pc = "rent_160"
    /\ rentals' = Append(rentals, procs[i].new_rental)
    /\ procs' = [procs EXCEPT ![i].pc = "rent_161"]
    /\ UNCHANGED <<ConcFrame, stations, powerbanks>>

\* line 161
Conc_rent_161(i) ==
    /\ procs[i].pc = "rent_161"
    /\ powerbanks' = [powerbanks EXCEPT ![procs[i].p].status = "rented"]
    /\ procs' = [procs EXCEPT ![i].pc = "rent_162"]
    /\ UNCHANGED <<ConcFrame, stations, rentals>>

\* lines 162-164, first half: find the station and read its counter
Conc_rent_162(i) ==
    /\ procs[i].pc = "rent_162"
    /\ LET s == FindById(stations, powerbanks[procs[i].p].station_id)
       IN  procs' = IF s = 0
                    THEN [procs EXCEPT ![i].pc = "done", ![i].status_code = 200]
                    ELSE [procs EXCEPT ![i].pc = "rent_164", ![i].s = s,
                                       ![i].tmp = stations[s].powerbanks_available]
    /\ UNCHANGED <<ConcFrame, stations, powerbanks, rentals>>

\* line 164, second half: store the decremented counter
Conc_rent_164(i) ==
    /\ procs[i].pc = "rent_164"
    /\ stations' = [stations EXCEPT ![procs[i].s].powerbanks_available = procs[i].tmp - 1]
    /\ procs' = [procs EXCEPT ![i].pc = "done", ![i].status_code = 200]
    /\ UNCHANGED <<ConcFrame, powerbanks, rentals>>

\* return_powerbank, lines 170-174: find the caller's rental and test its status
Conc_return_170(i) ==
    /\ procs[i].pc = "return_170"
    /\ LET r == Config_FindRental(procs[i].arg, Config_get_current_user.id)
       IN  procs' = IF r = 0
                    THEN [procs EXCEPT ![i].pc = "done", ![i].status_code = 404]
                    ELSE IF Config_ReturnRefused(rentals[r])
                    THEN [procs EXCEPT ![i].pc = "done", ![i].status_code = 400]
                    ELSE [procs EXCEPT ![i].pc = "return_176", ![i].r = r]
    /\ UNCHANGED <<ConcFrame, stations, powerbanks, rentals>>

\* line 176
Conc_return_176(i) ==
    /\ procs[i].pc = "return_176"
    /\ rentals' = [rentals EXCEPT ![procs[i].r].end_time = now]
    /\ procs' = [procs EXCEPT ![i].pc = "return_177"]
    /\ UNCHANGED <<ConcFrame, stations, powerbanks>>

\* line 177
Conc_return_177(i) ==
    /\ procs[i].pc = "return_177"
    /\ rentals' = [rentals EXCEPT ![procs[i].r].status = "completed"]
    /\ procs' = [procs EXCEPT ![i].pc = "return_178"]
    /\ UNCHANGED <<ConcFrame, stations, powerbanks>>

\* lines 178-179
Conc_return_178(i) ==
    /\ procs[i].pc = "return_178"
    /\ LET p == FindById(powerbanks, rentals[procs[i].r].powerbank_id)
       IN  /\ powerbanks' = [powerbanks EXCEPT ![p].status = "available"]
           /\ procs' = [procs EXCEPT ![i].pc = "return_180", ![i].p = p]
    /\ UNCHANGED <<ConcFrame, stations, rentals>>

\* lines 180-182, first half
Conc_return_180(i) ==
    /\ procs[i].pc = "return_180"
    /\ LET s == FindById(stations, powerbanks[procs[i].p].station_id)
       IN  procs' = IF s = 0
                    THEN [procs EXCEPT ![i].pc = "done", ![i].status_code = 200]
                    ELSE [procs EXCEPT ![i].pc = "return_182", ![i].s = s,
                                       ![i].tmp = stations[s].powerbanks_available]
    /\ UNCHANGED <<ConcFrame, stations, powerbanks, rentals>>

\* line 182, second half
Conc_return_182(i) ==
    /\ procs[i].pc = "return_182"
    /\ stations' = [stations EXCEPT ![procs[i].s].powerbanks_available = procs[i].tmp + 1]
    /\ procs' = [procs EXCEPT ![i].pc = "done", ![i].status_code = 200]
    /\ UNCHANGED <<ConcFrame, powerbanks, rentals>>

ConcNext ==
    \E i \in Procs :
        \/ \E p \in 1..2 : Conc_call_rent(i, p)
        \/ Conc_call_return(i, 1)
        \/ Conc_rent_146(i)
        \/ Conc_rent_152(i)
        \/ Conc_rent_160(i)
        \/ Conc_rent_161(i)
        \/ Conc_rent_162(i)
        \/ Conc_rent_164(i)
        \/ Conc_return_170(i)
        \/ Conc_return_176(i)
        \/ Conc_return_177(i)
        \/ Conc_return_178(i)
        \/ Conc_return_180(i)
        \/ Conc_return_182(i)

SpecConc == ConcInit /\ [][ConcNext]_vars

\* ==================================================== src/app/rentals/models.py
UserIds == 1..MaxUsers

RModels_Init ==
    /\ variant = "rmodels"
    /\ users = << >>
    /\ stations = << >>
    /\ powerbanks = << [id |-> 1, status |-> "available"],
                       [id |-> 2, status |-> "available"],
                       [id |-> 3, status |-> "rented"] >>
    /\ rentals = << >>
    /\ payments = << >>

\* line 97: the availability test of create_rental
RModels_RentRefused(pb) == pb.status # "available"

RModels_create_rental(user_id, powerbank_id, t) ==
    /\ variant = "rmodels"
    /\ LET p == FindById(powerbanks, powerbank_id)
       IN  IF p = 0
           THEN /\ resp' = [status_code |-> 404, detail |-> "PowerBank not found"]
                /\ UNCHANGED <<data, now>>
           ELSE IF RModels_RentRefused(powerbanks[p])
           THEN /\ resp' = [status_code |-> 400, detail |-> "PowerBank not available"]
                /\ UNCHANGED <<data, now>>
           ELSE /\ Len(rentals) < MaxRentals
                /\ rentals' = Append(rentals,
                       [id |-> Len(rentals) + 1,
                        user_id |-> user_id,
                        powerbank_id |-> powerbank_id,
                        start_time |-> t,
                        end_time |-> None,
                        status |-> "active"])
                /\ powerbanks' = [powerbanks EXCEPT ![p].status = "rented"]
                /\ resp' = [status_code |-> 200, detail |-> "new_rental"]
                /\ now' = t
                /\ UNCHANGED <<users, stations, payments>>
    /\ UNCHANGED frame

\* line 129: the first rental with the requested id that is active
RModels_FindActiveRental(rental_id) ==
    LET S == {i \in DOMAIN rentals :
                 rentals[i].id = rental_id /\ rentals[i].status = "active"}
    IN  IF S = {} THEN 0 ELSE Min(S)

RModels_return_powerbank(rental_id, t) ==
    /\ variant = "rmodels"
    /\ LET r == RModels_FindActiveRental(rental_id)
       IN  IF r = 0
           THEN /\ resp' = [status_code |-> 404, detail |-> "Active rental not found"]
                /\ UNCHANGED <<data, now>>
           ELSE LET p == FindById(powerbanks, rentals[r].powerbank_id)
                IN  /\ rentals' = [rentals EXCEPT ![r].end_time = t,
                                                  ![r].status = "completed"]
                    /\ powerbanks' = IF p # 0
                                     THEN [powerbanks EXCEPT ![p].status = "available"]
                                     ELSE powerbanks
                    /\ resp' = [status_code |-> 200, detail |-> "rental"]
                    /\ now' = t
                    /\ UNCHANGED <<users, stations, payments>>
    /\ UNCHANGED frame

RModels_Next ==
    \/ \E u \in UserIds, p \in 1..4, t \in ClockReadings : RModels_create_rental(u, p, t)
    \/ \E r \in 1..(MaxRentals + 1), t \in ClockReadings : RModels_return_powerbank(r, t)

\* ========================================================== src/app/__init__.py
AppInit_Init ==
    /\ variant = "init"
    /\ users = <<[id |-> 1]>>
    /\ stations = << [id |-> 1, powerbanks_available |-> 5] >>
    /\ powerbanks = << [id |-> 1, station_id |-> 1, status |-> "available"],
                       [id |-> 2, station_id |-> 1, status |-> "available"] >>
    /\ rentals = << >>
    /\ payments = << >>

\* get_current_user: always the first user
AppInit_get_current_user == users[1]

\* lines 122-125: the first power bank with the requested id that is available
AppInit_FindAvailable(powerbank_id) ==
    LET S == {i \in DOMAIN powerbanks :
                 powerbanks[i].id = powerbank_id /\ powerbanks[i].status = "available"}
    IN  IF S = {} THEN 0 ELSE Min(S)

AppInit_create_rental(powerbank_id, t) ==
    /\ variant = "init"
    /\ LET p == AppInit_FindAvailable(powerbank_id)
       IN  IF p = 0
           THEN /\ resp' = [status_code |-> 400, detail |-> "PowerBank not available"]
                /\ UNCHANGED <<data, now>>
           ELSE /\ Len(rentals) < MaxRentals
                /\ rentals' = Append(rentals,
                       [id |-> Len(rentals) + 1,
                        user_id |-> AppInit_get_current_user.id,
                        powerbank_id |-> powerbank_id,
                        start_time |-> t,
                        end_time |-> None,
                        status |-> "active"])
                /\ powerbanks' = [powerbanks EXCEPT ![p].status = "rented"]
                /\ resp' = [status_code |-> 200, detail |-> "new_rental"]
                /\ now' = t
                /\ UNCHANGED <<users, stations, payments>>
    /\ UNCHANGED frame

\* lines 145-146: the first rental with this id, of this user, that is active
AppInit_FindRental(rental_id, user_id) ==
    LET S == {i \in DOMAIN rentals : /\ rentals[i].id = rental_id
                                     /\ rentals[i].user_id = user_id
                                     /\ rentals[i].status = "active"}
    IN  IF S = {} THEN 0 ELSE Min(S)

AppInit_return_powerbank(rental_id, t) ==
    /\ variant = "init"
    /\ LET r == AppInit_FindRental(rental_id, AppInit_get_current_user.id)
       IN  IF r = 0
           THEN /\ resp' = [status_code |-> 400, detail |-> "Rental not found or not active"]
                /\ UNCHANGED <<data, now>>
           ELSE LET p == FindById(powerbanks, rentals[r].powerbank_id)
                IN  /\ rentals' = [rentals EXCEPT ![r].end_time = t,
                                                  ![r].status = "completed"]
                    /\ powerbanks' = IF p # 0
                                     THEN [powerbanks EXCEPT ![p].status = "available"]
                                     ELSE powerbanks
                    /\ resp' = [status_code |-> 200, detail |-> "rental"]
                    /\ now' = t
                    /\ UNCHANGED <<users, stations, payments>>
    /\ UNCHANGED frame

AppInit_Next ==
    \/ \E p \in 1..3, t \in ClockReadings : AppInit_create_rental(p, t)
    \/ \E r \in 1..(MaxRentals + 1), t \in ClockReadings : AppInit_return_powerbank(r, t)

\* ================================================== src/app/powerbanks/models.py
\* The ORM methods of PowerBank over the tables powerbank and rental.  No code of
\* the repository inserts power banks for this model; the table holds two rows,
\* one available and one under maintenance.
Charges == 0..MaxCharge

PBModels_Init ==
    /\ variant = "pbmodels"
    /\ users = << >>
    /\ stations = << [id |-> 1] >>
    /\ powerbanks = << [id |-> 1, capacity |-> MaxCharge, current_charge |-> MaxCharge,
                        status |-> "available", station_id |-> 1],
                       [id |-> 2, capacity |-> MaxCharge, current_charge |-> 0,
                        status |-> "maintenance", station_id |-> 1] >>
    /\ rentals = << >>
    /\ payments = << >>

\* Mutant of PBModels_RentRefused: only a rented power bank is refused.
PBModels_RentRefused_RentedOnly(pb) == pb.status = "rented"

\* line 49: the availability test of PowerBank.rent
PBModels_RentRefused(pb) == pb.status # "available"

\* PowerBank.rent(self, user_id), self the row with index p
PBModels_rent(p, user_id, t) ==
    /\ variant = "pbmodels"
    /\ p \in DOMAIN powerbanks
    /\ IF PBModels_RentRefused(powerbanks[p])
       THEN /\ resp' = [success |-> FALSE, message |-> "Power bank is not available"]
            /\ UNCHANGED <<data, now>>
       ELSE /\ Len(rentals) < MaxRentals
            /\ rentals' = Append(rentals,
                   [id |-> Len(rentals) + 1,
                    powerbank_id |-> powerbanks[p].id,
                    user_id |-> user_id,
                    start_time |-> t,
                    end_time |-> None,
                    status |-> "active"])
            /\ powerbanks' = [powerbanks EXCEPT ![p].status = "rented"]
            /\ resp' = [success |-> TRUE, message |-> "Power bank rented successfully"]
            /\ now' = t
            /\ UNCHANGED <<users, stations, payments>>
    /\ UNCHANGED frame

\* Mutant of PBModels_FindActiveRental: the status filter is missing.
PBModels_FindActiveRental_AnyStatus(powerbank_id) ==
    LET S == {i \in DOMAIN rentals : rentals[i].powerbank_id = powerbank_id}
    IN  IF S = {} THEN 0 ELSE Min(S)

\* line 73: Rental.query.filter_by(powerbank_id=self.id, status='active').first()
PBModels_FindActiveRental(powerbank_id) ==
    LET S == {i \in DOMAIN rentals : /\ rentals[i].powerbank_id = powerbank_id
                                     /\ rentals[i].status = "active"}
    IN  IF S = {} THEN 0 ELSE Min(S)

\* PowerBank.return_powerbank(self, current_charge)
PBModels_return_powerbank(p, current_charge, t) ==
    /\ variant = "pbmodels"
    /\ p \in DOMAIN powerbanks
    /\ LET r == PBModels_FindActiveRental(powerbanks[p].id)
       IN  IF r = 0
           THEN /\ resp' = [success |-> FALSE, message |-> "No active rental found"]
                /\ UNCHANGED <<data, now>>
           ELSE /\ rentals' = [rentals EXCEPT ![r].end_time = t,
                                              ![r].status = "completed"]
                /\ powerbanks' = [powerbanks EXCEPT ![p].current_charge = current_charge,
                                                    ![p].status = "available"]
                /\ resp' = [success |-> TRUE, message |-> "Power bank returned successfully"]
                /\ now' = t
                /\ UNCHANGED <<users, stations, payments>>
    /\ UNCHANGED frame

PBModels_Next ==
    \/ \E p \in 1..2, u \in UserIds, t \in ClockReadings : PBModels_rent(p, u, t)
    \/ \E p \in 1..2, c \in Charges, t \in ClockReadings : PBModels_return_powerbank(p, c, t)

\* ================================================================== src/run.py
\* Flask + SQLAlchemy.  A table is the sequence of its rows in insertion order;
\* no handler deletes a row, so the autoincrement id of a new row is the row
\* count plus one.  No route makes a user an admin: the database starts with
\* the one admin row that an operator (or tests/test_stations.py:27-45) inserts.
Usernames == {"admin", "user1"}
Emails == {"admin@example.com", "user1@example.com"}

Run_Init ==
    /\ variant = "run"
    /\ users = << [id |-> 1, username |-> "admin", email |-> "admin@example.com",
                   is_admin |-> TRUE] >>
    /\ stations = << >>
    /\ powerbanks = << >>
    /\ rentals = << >>
    /\ payments = << >>

\* the ids a JWT can carry: get_jwt_identity() of a logged-in user
Run_Callers == {users[i].id : i \in DOMAIN users}

\* Model.query.get(id): index of the row, 0 for None
Run_get(table, id) == FindById(table, id)

\* Mutant of Run_RegisterRefused: the email is not looked up.
Run_RegisterRefused_NoEmailTest(username, password, email) ==
    \/ username = "" \/ password = "" \/ email = ""
    \/ \E i \in DOMAIN users : users[i].username = username

\* lines 77-81: the request is refused (missing field, or name or email in use)
Run_RegisterRefused(username, password, email) ==
    \/ username = "" \/ password = "" \/ email = ""
    \/ \E i \in DOMAIN users : users[i].username = username
    \/ \E i \in DOMAIN users : users[i].email = email

Run_register(username, password, email) ==
    /\ variant = "run"
    /\ IF Run_RegisterRefused(username, password, email)
       THEN /\ resp' = [status_code |-> 400, detail |-> "refused"]
            /\ UNCHANGED <<data, now>>
       ELSE /\ users' = Append(users, [id |-> Len(users) + 1, username |-> username,
                                       email |-> email, is_admin |-> FALSE])
            /\ resp' = [status_code |-> 201, detail |-> "User registered successfully"]
            /\ UNCHANGED <<stations, powerbanks, rentals, payments, now>>
    /\ UNCHANGED frame

\* lines 57-66: admin_required lets the caller through
Run_IsAdmin(caller) ==
    LET u == Run_get(users, caller)
    IN  u # 0 /\ users[u].is_admin

\* add_station; `complete` says whether name and location are both supplied
Run_add_station(caller, complete) ==
    /\ variant = "run"
    /\ IF ~Run_IsAdmin(caller)
       THEN /\ resp' = [status_code |-> 403, detail |-> "Admin access required"]
            /\ UNCHANGED <<data, now>>
       ELSE IF ~complete
       THEN /\ resp' = [status_code |-> 400, detail |-> "Missing required fields"]
            /\ UNCHANGED <<data, now>>
       ELSE /\ Len(stations) < MaxRunStations
            /\ stations' = Append(stations, [id |-> Len(stations) + 1])
            /\ resp' = [status_code |-> 201, detail |-> "Station added successfully"]
            /\ UNCHANGED <<users, powerbanks, rentals, payments, now>>
    /\ UNCHANGED frame

\* add_powerbank; station_id None stands for a body without station_id
Run_add_powerbank(caller, station_id) ==
    /\ variant = "run"
    /\ IF ~Run_IsAdmin(caller)
       THEN /\ resp' = [status_code |-> 403, detail |-> "Admin access required"]
            /\ UNCHANGED <<data, now>>
       ELSE IF station_id = None
       THEN /\ resp' = [status_code |-> 400, detail |-> "Missing station_id"]
            /\ UNCHANGED <<data, now>>
       ELSE IF Run_get(stations, station_id) = 0
       THEN /\ resp' = [status_code |-> 404, detail |-> "Station not found"]
            /\ UNCHANGED <<data, now>>
       ELSE /\ Len(powerbanks) < MaxRows
            /\ powerbanks' = Append(powerbanks,
                   [id |-> Len(powerbanks) + 1, station_id |-> station_id,
                    status |-> "available"])
            /\ resp' = [status_code |-> 201, detail |-> "Power bank added successfully"]
            /\ UNCHANGED <<users, stations, rentals, payments, now>>
    /\ UNCHANGED frame

\* line 169: the power bank is missing or not available
Run_RentRefused(p) == p = 0 \/ powerbanks[p].status # "available"

\* Mutant of Run_HasActiveRental: the active-rental test is missing.
Run_HasActiveRental_Never(caller) == FALSE

\* lines 172-173: the caller already has an active rental
Run_HasActiveRental(caller) ==
    \E i \in DOMAIN rentals : rentals[i].user_id = caller /\ rentals[i].status = "active"

\* Mutant of Run_new_rental: the rental is stored for the first user.
Run_new_rental_FirstUser(caller, powerbank_id, t) ==
    [id |-> Len(rentals) + 1,
     user_id |-> users[1].id,
     power_bank_id |-> powerbank_id,
     rent_time |-> t,
     return_time |-> None,
     status |-> "active"]

\* line 176 with the column defaults of lines 41-43: the row of the new rental
Run_new_rental(caller, powerbank_id, t) ==
    [id |-> Len(rentals) + 1,
     user_id |-> caller,
     power_bank_id |-> powerbank_id,
     rent_time |-> t,
     return_time |-> None,
     status |-> "active"]

Run_rent_powerbank(caller, powerbank_id, t) ==
    /\ variant = "run"
    /\ LET p == Run_get(powerbanks, powerbank_id)
       IN  IF Run_RentRefused(p)
           THEN /\ resp' = [status_code |-> 400, detail |-> "Power bank not available"]
                /\ UNCHANGED <<data, now>>
           ELSE IF Run_HasActiveRental(caller)
           THEN /\ resp' = [status_code |-> 400, detail |-> "You already have an active rental"]
                /\ UNCHANGED <<data, now>>
           ELSE /\ Len(rentals) < MaxRentals
                /\ rentals' = Append(rentals, Run_new_rental(caller, powerbank_id, t))
                /\ powerbanks' = [powerbanks EXCEPT ![p].status = "rented"]
                /\ resp' = [status_code |-> 201, detail |-> "Power bank rented successfully"]
                /\ now' = t
                /\ UNCHANGED <<users, stations, payments>>
    /\ UNCHANGED frame

\* line 193: the rental is missing, not the caller's, or not active
Run_ReturnRefused(r, caller) ==
    \/ r = 0
    \/ rentals[r].user_id # caller
    \/ rentals[r].status # "active"

\* Mutant of Run_new_payment: the payment is stored as already completed.
Run_new_payment_Completed(rental_id, amount) ==
    [id |-> Len(payments) + 1, rental_id |-> rental_id, amount |-> amount,
     status |-> "completed"]

\* line 204: the row of the new payment; the amount is the rental's duration
\* at $1 per hour, in clock units
Run_new_payment(rental_id, amount) ==
    [id |-> Len(payments) + 1, rental_id |-> rental_id, amount |-> amount,
     status |-> "pending"]

\* station_id None stands for a body without station_id: the column is declared
\* nullable=False (line 33), the commit raises and the session is rolled back
Run_return_powerbank(caller, rental_id, station_id, t) ==
    /\ variant = "run"
    /\ LET r == Run_get(rentals, rental_id)
       IN  IF Run_ReturnRefused(r, caller)
           THEN /\ resp' = [status_code |-> 400, detail |-> "Invalid rental"]
                /\ UNCHANGED <<data, now>>
           ELSE IF station_id = None
           THEN /\ resp' = [status_code |-> 500, detail |-> "IntegrityError"]
                /\ UNCHANGED <<data, now>>
           ELSE LET p == Run_get(powerbanks, rentals[r].power_bank_id)
                IN  /\ powerbanks' = [powerbanks EXCEPT ![p].status = "available",
                                                        ![p].station_id = station_id]
                    /\ rentals' = [rentals EXCEPT ![r].return_time = t,
                                                  ![r].status = "completed"]
                    /\ payments' = Append(payments,
                           Run_new_payment(rental_id, t - rentals[r].rent_time))
                    /\ resp' = [status_code |-> 200, detail |-> "Power bank returned successfully"]
                    /\ now' = t
                    /\ UNCHANGED <<users, stations>>
    /\ UNCHANGED frame

\* Mutant of Run_PaymentForbidden: the ownership test is missing.
Run_PaymentForbidden_Never(y, caller) == FALSE

\* lines 234-236: the payment's rental belongs to another user
Run_PaymentForbidden(y, caller) ==
    rentals[Run_get(rentals, payments[y].rental_id)].user_id # caller

Run_process_payment(caller, payment_id) ==
    /\ variant = "run"
    /\ LET y == Run_get(payments, payment_id)
       IN  IF y = 0
           THEN /\ resp' = [status_code |-> 404, detail |-> "Payment not found"]
                /\ UNCHANGED <<data, now>>
           ELSE IF Run_PaymentForbidden(y, caller)
           THEN /\ resp' = [status_code |-> 403, detail |-> "Unauthorized"]
                /\ UNCHANGED <<data, now>>
           ELSE /\ payments' = [payments EXCEPT ![y].status = "completed"]
                /\ resp' = [status_code |-> 200, detail |-> "Payment processed successfully"]
                /\ UNCHANGED <<users, stations, powerbanks, rentals, now>>
    /\ UNCHANGED frame

\* lines 210-222: get_rentals, the rentals of the logged-in user
Run_get_rentals(caller) ==
    /\ variant = "run"
    /\ LET mine(r) == r.user_id = caller
       IN  resp' = [status_code |-> 200, rentals |-> SelectSeq(rentals, mine)]
    /\ UNCHANGED <<data, now, frame>>

Run_Next ==
    \/ \E u \in Usernames \cup {""}, pw \in {"", "password"}, e \in Emails \cup {""} :
           Run_register(u, pw, e)
    \/ \E c \in Run_Callers, complete \in BOOLEAN : Run_add_station(c, complete)
    \/ \E c \in Run_Callers, s \in (1..(MaxRows + 1)) \cup {None} : Run_add_powerbank(c, s)
    \/ \E c \in Run_Callers, p \in 1..(MaxRows + 1), t \in ClockReadings :
           Run_rent_powerbank(c, p, t)
    \/ \E c \in Run_Callers, r \in 1..(MaxRentals + 1), s \in {1, MaxRows + 1, None},
          t \in ClockReadings :
           Run_return_powerbank(c, r, s, t)
    \/ \E c \in Run_Callers, y \in 1..(MaxRentals + 1) : Run_process_payment(c, y)
    \/ \E c \in Run_Callers : Run_get_rentals(c)

\* ================= src/app/rentals/routes.py and src/app/powerbanks/routes.py
\* The Flask blueprints over the tables user, power bank and rental.  Neither
\* blueprint inserts users; the user table holds the MaxUsers users that the
\* identity collaborator registered.  Request fields arrive as JSON text.
Serials == {"SN1", "SN2"}
IdTexts == {"1", "2", "3", "abc"}

\* int(x): the number a JSON field denotes, None when int() raises
ParseInt(x) ==
    CASE x = "1" -> 1
      [] x = "2" -> 2
      [] x = "3" -> 3
      [] OTHER -> None

\* The user_id and powerbank_id fields of a decoded JSON body: the numbers 1, 2
\* and 3 (or the strings "1", "2", "3"), the string "abc" and the number 1.5
JsonIds == IdTexts \cup {"1.5"}

\* int(x) of a decoded JSON field: a float is truncated towards zero, a string
\* that is no integer literal raises ValueError
IntOfJson(x) == IF x = "1.5" THEN 1 ELSE ParseInt(x)

Routes_Init ==
    /\ variant = "routes"
    /\ users = [i \in 1..MaxUsers |-> [id |-> i]]
    /\ stations = << >>
    /\ powerbanks = << >>
    /\ rentals = << >>
    /\ payments = << >>

\* powerbanks/routes.py create_powerbank; `complete` says whether serial_number,
\* capacity and location are all supplied
Routes_create_powerbank(serial_number, complete) ==
    /\ variant = "routes"
    /\ IF ~complete
       THEN /\ resp' = [status_code |-> 400, detail |-> "Missing required fields"]
            /\ UNCHANGED <<data, now>>
       ELSE IF \E i \in DOMAIN powerbanks : powerbanks[i].serial_number = serial_number
       THEN /\ resp' = [status_code |-> 400,
                        detail |-> "PowerBank with this serial number already exists"]
            /\ UNCHANGED <<data, now>>
       ELSE /\ Len(powerbanks) < MaxRows
            /\ powerbanks' = Append(powerbanks,
                   [id |-> Len(powerbanks) + 1, serial_number |-> serial_number,
                    is_available |-> TRUE])
            /\ resp' = [status_code |-> 201, detail |-> "powerbank"]
            /\ UNCHANGED <<users, stations, rentals, payments, now>>
    /\ UNCHANGED frame

\* powerbanks/routes.py update_powerbank with 'is_available' in the body
Routes_update_powerbank(powerbank_id, is_available) ==
    /\ variant = "routes"
    /\ LET p == FindById(powerbanks, powerbank_id)
       IN  IF p = 0
           THEN /\ resp' = [status_code |-> 404, detail |-> "PowerBank not found"]
                /\ UNCHANGED <<data, now>>
           ELSE /\ powerbanks' = [powerbanks EXCEPT ![p].is_available = is_available]
                /\ resp' = [status_code |-> 200, detail |-> "powerbank"]
                /\ UNCHANGED <<users, stations, rentals, payments, now>>
    /\ UNCHANGED frame

\* rentals/routes.py line 38: the availability test of create_rental
Routes_RentRefused(pb) == ~pb.is_available

Routes_create_rental(user_id_text, powerbank_id_text, t) ==
    /\ variant = "routes"
    /\ LET user_id == IntOfJson(user_id_text)
           powerbank_id == IntOfJson(powerbank_id_text)
           p == FindById(powerbanks, powerbank_id)
       IN  IF user_id = None \/ powerbank_id = None
           THEN /\ resp' = [status_code |-> 400, detail |-> "Invalid user_id or powerbank_id"]
                /\ UNCHANGED <<data, now>>
           ELSE IF FindById(users, user_id) = 0
           THEN /\ resp' = [status_code |-> 404, detail |-> "User not found"]
                /\ UNCHANGED <<data, now>>
           ELSE IF p = 0
           THEN /\ resp' = [status_code |-> 404, detail |-> "PowerBank not found"]
                /\ UNCHANGED <<data, now>>
           ELSE IF Routes_RentRefused(powerbanks[p])
           THEN /\ resp' = [status_code |-> 400, detail |-> "PowerBank is not available"]
                /\ UNCHANGED <<data, now>>
           ELSE /\ Len(rentals) < MaxRentals
                /\ rentals' = Append(rentals,
                       [id |-> Len(rentals) + 1,
                        user_id |-> user_id,
                        powerbank_id |-> powerbank_id,
                        start_time |-> t,
                        end_time |-> None,
                        status |-> "active"])
                /\ powerbanks' = [powerbanks EXCEPT ![p].is_available = FALSE]
                /\ resp' = [status_code |-> 201, detail |-> "new_rental"]
                /\ now' = t
                /\ UNCHANGED <<users, stations, payments>>
    /\ UNCHANGED frame

\* Mutant of Routes_ReturnRefused: the activity test is missing.
Routes_ReturnRefused_Never(rental) == FALSE

\* rentals/routes.py line 70: the activity test of return_rental
Routes_ReturnRefused(rental) == rental.status # "active"

\* return_rental reads no identity: `caller` is whoever sent the PATCH
Routes_return_rental(caller, rental_id, t) ==
    /\ variant = "routes"
    /\ LET r == FindById(rentals, rental_id)
       IN  IF r = 0
           THEN /\ resp' = [status_code |-> 404, detail |-> "Rental not found"]
                /\ UNCHANGED <<data, now>>
           ELSE IF Routes_ReturnRefused(rentals[r])
           THEN /\ resp' = [status_code |-> 400, detail |-> "Rental is not active"]
                /\ UNCHANGED <<data, now>>
           ELSE LET p == FindById(powerbanks, rentals[r].powerbank_id)
                IN  /\ rentals' = [rentals EXCEPT ![r].end_time = t,
                                                  ![r].status = "completed"]
                    /\ powerbanks' = IF p # 0
                                     THEN [powerbanks EXCEPT ![p].is_available = TRUE]
                                     ELSE powerbanks
                    /\ resp' = [status_code |-> 200, detail |-> "rental"]
                    /\ now' = t
                    /\ UNCHANGED <<users, stations, payments>>
    /\ UNCHANGED frame

\* the values of the query parameter `status`; "" stands for an absent one
StatusFilters == {"", "active", "completed"}

\* Mutant of Routes_Selected: the status filter is not applied.
Routes_Selected_AnyStatus(rental, user_id, status) ==
    user_id # None => rental.user_id = user_id

\* rentals/routes.py lines 116-126: the row passes the filters of get_rentals;
\* user_id None and status "" stand for a filter that is not applied
Routes_Selected(rental, user_id, status) ==
    /\ user_id # None => rental.user_id = user_id
    /\ status # "" => rental.status = status

\* rentals/routes.py get_rentals; user_id_text "" stands for an absent or empty
\* query parameter
Routes_get_rentals(user_id_text, status) ==
    /\ variant = "routes"
    /\ IF user_id_text # "" /\ ParseInt(user_id_text) = None
       THEN resp' = [status_code |-> 400, detail |-> "Invalid user_id"]
       ELSE LET user_id == IF user_id_text = "" THEN None ELSE ParseInt(user_id_text)
                pass(r) == Routes_Selected(r, user_id, status)
            IN  resp' = [status_code |-> 200, rentals |-> SelectSeq(rentals, pass)]
    /\ UNCHANGED <<data, now, frame>>

Routes_Next ==
    \/ \E sn \in Serials, complete \in BOOLEAN : Routes_create_powerbank(sn, complete)
    \/ \E p \in 1..(MaxRows + 1), a \in BOOLEAN : Routes_update_powerbank(p, a)
    \/ \E u \in JsonIds, p \in JsonIds, t \in ClockReadings : Routes_create_rental(u, p, t)
    \/ \E c \in UserIds, r \in 1..(MaxRentals + 1), t \in ClockReadings :
           Routes_return_rental(c, r, t)
    \/ \E u \in IdTexts \cup {""}, st \in StatusFilters : Routes_get_rentals(u, st)

\* ====================================================== src/app/extensions.py
\* Flask + SQLAlchemy with a balance on every user.  No route of this module
\* inserts power banks or credits a balance: the database starts with two users
\* whose balances an operator has set, one available power bank and one under
\* maintenance.  register adds users with the column default, balance 0.
Ext_rental_cost == 10
Ext_Balances == {0, Ext_rental_cost, 2 * Ext_rental_cost + 5}
Ext_Names == {"u1", "u3"}

Ext_Init ==
    /\ variant = "ext"
    /\ \E b1 \in Ext_Balances, b2 \in Ext_Balances :
           users = << [id |-> 1, username |-> "u1", balance |-> b1],
                      [id |-> 2, username |-> "u2", balance |-> b2] >>
    /\ stations = << >>
    /\ powerbanks = << [id |-> 1, location_id |-> 1, status |-> "available"],
                       [id |-> 2, location_id |-> 1, status |-> "maintenance"] >>
    /\ rentals = << >>
    /\ payments = << >>

\* the ids a JWT can carry
Ext_Callers == {users[i].id : i \in DOMAIN users}

\* lines 66-73: the registration is refused; `complete` says whether username,
\* password and email are all supplied, `fresh_email` whether the email is unused
Ext_RegisterRefused(username, complete, fresh_email) ==
    \/ ~complete
    \/ \E i \in DOMAIN users : users[i].username = username
    \/ ~fresh_email

Ext_register(username, complete, fresh_email) ==
    /\ variant = "ext"
    /\ IF Ext_RegisterRefused(username, complete, fresh_email)
       THEN /\ resp' = [status_code |-> 400, detail |-> "refused"]
            /\ UNCHANGED <<data, now>>
       ELSE /\ users' = Append(users, [id |-> Len(users) + 1, username |-> username,
                                       balance |-> 0])
            /\ resp' = [status_code |-> 201, detail |-> "User registered successfully"]
            /\ UNCHANGED <<stations, powerbanks, rentals, payments, now>>
    /\ UNCHANGED frame

\* line 178: the power bank is missing or not available
Ext_RentRefused(p) == p = 0 \/ powerbanks[p].status # "available"

\* Mutant of Ext_InsufficientBalance: the balance is compared with zero.
Ext_InsufficientBalance_BelowZero(user) == user.balance < 0

\* Mutant of Ext_InsufficientBalance: the balance test is missing.
Ext_InsufficientBalance_Never(user) == FALSE

\* line 183: the balance does not cover the rental cost
Ext_InsufficientBalance(user) == user.balance < Ext_rental_cost

Ext_rent_powerbank(caller, powerbank_id, t) ==
    /\ variant = "ext"
    /\ LET p == FindById(powerbanks, powerbank_id)
           u == FindById(users, caller)
       IN  IF Ext_RentRefused(p)
           THEN /\ resp' = [status_code |-> 400, detail |-> "Power bank not available"]
                /\ UNCHANGED <<data, now>>
           ELSE IF Ext_InsufficientBalance(users[u])
           THEN /\ resp' = [status_code |-> 400, detail |-> "Insufficient balance"]
                /\ UNCHANGED <<data, now>>
           ELSE /\ Len(rentals) < MaxRentals
                /\ users' = [users EXCEPT ![u].balance = @ - Ext_rental_cost]
                /\ powerbanks' = [powerbanks EXCEPT ![p].status = "rented"]
                /\ rentals' = Append(rentals,
                       [id |-> Len(rentals) + 1,
                        user_id |-> caller,
                        powerbank_id |-> powerbank_id,
                        rental_time |-> t,
                        return_time |-> None,
                        status |-> "active"])
                /\ resp' = [status_code |-> 201, detail |-> "Power bank rented successfully"]
                /\ now' = t
                /\ UNCHANGED <<stations, payments>>
    /\ UNCHANGED frame

\* line 206: the rental is missing, not the caller's, or not active
Ext_ReturnRefused(r, caller) ==
    \/ r = 0
    \/ rentals[r].user_id # caller
    \/ rentals[r].status # "active"

Ext_return_powerbank(caller, rental_id, t) ==
    /\ variant = "ext"
    /\ LET r == FindById(rentals, rental_id)
       IN  IF Ext_ReturnRefused(r, caller)
           THEN /\ resp' = [status_code |-> 400, detail |-> "Invalid rental"]
                /\ UNCHANGED <<data, now>>
           ELSE LET p == FindById(powerbanks, rentals[r].powerbank_id)
                IN  /\ rentals' = [rentals EXCEPT ![r].return_time = t,
                                                  ![r].status = "completed"]
                    /\ powerbanks' = [powerbanks EXCEPT ![p].status = "available"]
                    /\ resp' = [status_code |-> 200,
                                detail |-> "Power bank returned successfully"]
                    /\ now' = t
                    /\ UNCHANGED <<users, stations, payments>>
    /\ UNCHANGED frame

Ext_Next ==
    \/ \E u \in Ext_Names, complete \in BOOLEAN, fresh_email \in BOOLEAN :
           Ext_register(u, complete, fresh_email)
    \/ \E c \in Ext_Callers, p \in 1..(MaxRows + 1), t \in ClockReadings :
           Ext_rent_powerbank(c, p, t)
    \/ \E c \in Ext_Callers, r \in 1..(MaxRentals + 1), t \in ClockReadings :
           Ext_return_powerbank(c, r, t)

\* ================================================= src/app/stations/routes.py
\* The stations table; a row is [id, capacity, available_power_banks].  SQLite
\* gives a new row the largest id in the table plus one.  is_admin is the flag of
\* the authenticated user, supplied by the identity collaborator.
CapValues == 0..MaxCap

Stations_Init ==
    /\ variant = "stations"
    /\ users = << >>
    /\ stations = << >>
    /\ powerbanks = << >>
    /\ rentals = << >>
    /\ payments = << >>

Stations_NewId ==
    IF stations = << >> THEN 1
    ELSE 1 + CHOOSE m \in {stations[i].id : i \in DOMAIN stations} :
                 \A i \in DOMAIN stations : stations[i].id <= m

\* line 37: create_station refuses the request
Stations_CreateRefused(capacity, available_power_banks) ==
    available_power_banks > capacity

Stations_create_station(is_admin, capacity, available_power_banks) ==
    /\ variant = "stations"
    /\ IF ~is_admin
       THEN /\ resp' = [status_code |-> 403, detail |-> "Not authorized"]
            /\ UNCHANGED <<data, now>>
       ELSE IF Stations_CreateRefused(capacity, available_power_banks)
       THEN /\ resp' = [status_code |-> 400,
                        detail |-> "Available power banks cannot exceed capacity"]
            /\ UNCHANGED <<data, now>>
       ELSE /\ Len(stations) < MaxRows
            /\ stations' = Append(stations,
                   [id |-> Stations_NewId, capacity |-> capacity,
                    available_power_banks |-> available_power_banks])
            /\ resp' = [status_code |-> 200, detail |-> "new_station"]
            /\ UNCHANGED <<users, powerbanks, rentals, payments, now>>
    /\ UNCHANGED frame

\* Mutant of Stations_UpdateRefused: an update of the capacity alone is not tested.
Stations_UpdateRefused_NoCapacityTest(db_station, capacity, available_power_banks) ==
    IF available_power_banks # None /\ capacity # None
    THEN available_power_banks > capacity
    ELSE IF available_power_banks # None
    THEN available_power_banks > db_station.capacity
    ELSE FALSE

\* lines 123-131: update_station refuses the update; a field that the request
\* leaves unset is None
Stations_UpdateRefused(db_station, capacity, available_power_banks) ==
    IF available_power_banks # None /\ capacity # None
    THEN available_power_banks > capacity
    ELSE IF available_power_banks # None
    THEN available_power_banks > db_station.capacity
    ELSE IF capacity # None
    THEN db_station.available_power_banks > capacity
    ELSE FALSE

Stations_update_station(is_admin, station_id, capacity, available_power_banks) ==
    /\ variant = "stations"
    /\ LET i == FindById(stations, station_id)
       IN  IF ~is_admin
           THEN /\ resp' = [status_code |-> 403, detail |-> "Not authorized"]
                /\ UNCHANGED <<data, now>>
           ELSE IF i = 0
           THEN /\ resp' = [status_code |-> 404, detail |-> "Station not found"]
                /\ UNCHANGED <<data, now>>
           ELSE IF Stations_UpdateRefused(stations[i], capacity, available_power_banks)
           THEN /\ resp' = [status_code |-> 400,
                            detail |-> IF available_power_banks # None
                                       THEN "Available power banks cannot exceed capacity"
                                       ELSE "Capacity cannot be less than available power banks"]
                /\ UNCHANGED <<data, now>>
           ELSE /\ stations' = [stations EXCEPT
                       ![i].capacity = IF capacity # None THEN capacity ELSE @,
                       ![i].available_power_banks =
                           IF available_power_banks # None THEN available_power_banks ELSE @]
                /\ resp' = [status_code |-> 200, detail |-> "station"]
                /\ UNCHANGED <<users, powerbanks, rentals, payments, now>>
    /\ UNCHANGED frame

Stations_delete_station(is_admin, station_id) ==
    /\ variant = "stations"
    /\ LET i == FindById(stations, station_id)
       IN  IF ~is_admin
           THEN /\ resp' = [status_code |-> 403, detail |-> "Not authorized"]
                /\ UNCHANGED <<data, now>>
           ELSE IF i = 0
           THEN /\ resp' = [status_code |-> 404, detail |-> "Station not found"]
                /\ UNCHANGED <<data, now>>
           ELSE /\ stations' = [k \in 1..(Len(stations) - 1) |->
                                   IF k < i THEN stations[k] ELSE stations[k + 1]]
                /\ resp' = [status_code |-> 200, detail |-> "Station deleted"]
                /\ UNCHANGED <<users, powerbanks, rentals, payments, now>>
    /\ UNCHANGED frame

Stations_Next ==
    \/ \E a \in BOOLEAN, c \in CapValues, v \in CapValues : Stations_create_station(a, c, v)
    \/ \E a \in BOOLEAN, i \in 1..(MaxRows + 1), c \in CapValues \cup {None},
          v \in CapValues \cup {None} : Stations_update_station(a, i, c, v)
    \/ \E a \in BOOLEAN, i \in 1..(MaxRows + 1) : Stations_delete_station(a, i)

\* ================================================================ the system
Init ==
    /\ now = 0
    /\ resp = [status_code |-> 0, detail |-> "none"]
    /\ procs = << >>
    /\ \/ Config_Init
       \/ RModels_Init
       \/ AppInit_Init
       \/ PBModels_Init
       \/ Run_Init
       \/ Routes_Init
       \/ Stations_Init
       \/ Ext_Init

Next ==
    \/ Config_Next
    \/ RModels_Next
    \/ AppInit_Next
    \/ PBModels_Next
    \/ Run_Next
    \/ Routes_Next
    \/ Stations_Next
    \/ Ext_Next

Spec == Init /\ [][Next]_vars

\* ==================================================================== claims
\* the active rentals that reference the power bank with this id
ActiveRentalsOf(powerbank_id) ==
    {j \in DOMAIN rentals : /\ rentals[j].powerbank_id = powerbank_id
                            /\ rentals[j].status = "active"}

\* the power banks of a station that are available
AvailableAt(station_id) ==
    {i \in DOMAIN powerbanks : /\ powerbanks[i].station_id = station_id
                               /\ powerbanks[i].status = "available"}

\* C1: in the in-memory ledgers of config.py and rentals/models.py, a power bank
\* has status "rented" if and only if exactly one active rental references it.
C1_RentedIffOneActive ==
    variant \in {"config", "rmodels"} =>
        \A i \in DOMAIN powerbanks :
            (powerbanks[i].status = "rented")
                <=> (Cardinality(ActiveRentalsOf(powerbanks[i].id)) = 1)

\* the handlers that ran rent_powerbank on this power bank and answered 200
Conc_RentSuccesses(powerbank_id) ==
    {i \in Procs : /\ procs[i].op = "rent_powerbank"
                   /\ procs[i].arg = powerbank_id
                   /\ procs[i].status_code = 200}

\* C2: when rent requests for the same available power bank interleave, at most
\* one of them succeeds and the power bank is never referenced by two active
\* rentals.
C2_RentIsAtomic ==
    \A id \in 1..MaxPowerbanks :
        /\ Cardinality(ActiveRentalsOf(id)) <= 1
        /\ (\A i \in Procs : procs[i].op # "return_powerbank")
               => Cardinality(Conc_RentSuccesses(id)) <= 1

\* C6: station 1 starts with M = 2 available power banks; after N concurrent
\* rent calls against them its stored counter is never negative and, once all
\* calls have answered, does not exceed M minus the number of successful calls.
C6_CounterWithinBounds ==
    (\A i \in Procs : procs[i].op \in {"none", "rent_powerbank"}) =>
        /\ stations[1].powerbanks_available >= 0
        /\ (\A i \in Procs : procs[i].pc \in {"idle", "done"}) =>
               stations[1].powerbanks_available
                   <= 2 - Cardinality({i \in Procs : procs[i].status_code = 200})

\* C9: each station's stored counter equals the number of power banks of that
\* station whose status is "available" (config.py and app/__init__.py).
C9_CounterEqualsAvailable ==
    variant \in {"config", "init"} =>
        \A s \in DOMAIN stations :
            stations[s].powerbanks_available = Cardinality(AvailableAt(stations[s].id))

\* some power bank with this id is rented or under maintenance
Unavailable(powerbank_id) ==
    \E i \in DOMAIN powerbanks : /\ powerbanks[i].id = powerbank_id
                                 /\ powerbanks[i].status \in {"rented", "maintenance"}

\* C3: starting a rental on a power bank that is rented or under maintenance
\* fails with 400 (PowerBank.rent of powerbanks/models.py: returns False) and
\* changes no rental, power bank, station, user (balance included) or payment.
C3_RentUnavailableRefused ==
    [][ /\ variant = "config" => \A p \in 1..(MaxPowerbanks + 1), t \in ClockReadings :
              (Unavailable(p) /\ Config_rent_powerbank(p, t))
                  => (resp'.status_code = 400 /\ UNCHANGED data)
        /\ variant = "init" => \A p \in 1..(MaxPowerbanks + 1), t \in ClockReadings :
              (Unavailable(p) /\ AppInit_create_rental(p, t))
                  => (resp'.status_code = 400 /\ UNCHANGED data)
        /\ variant = "rmodels" => \A u \in UserIds, p \in 1..(MaxPowerbanks + 1),
              t \in ClockReadings :
              (Unavailable(p) /\ RModels_create_rental(u, p, t))
                  => (resp'.status_code = 400 /\ UNCHANGED data)
        /\ variant = "run" => \A c \in UserIds, p \in 1..(MaxPowerbanks + 1), t \in ClockReadings :
              (Unavailable(p) /\ Run_rent_powerbank(c, p, t))
                  => (resp'.status_code = 400 /\ UNCHANGED data)
        /\ variant = "ext" => \A c \in Ext_Callers, p \in 1..(MaxRows + 1),
              t \in ClockReadings :
              (Unavailable(p) /\ Ext_rent_powerbank(c, p, t))
                  => (resp'.status_code = 400 /\ UNCHANGED data)
        /\ variant = "pbmodels" => \A p \in DOMAIN powerbanks, u \in UserIds,
              t \in ClockReadings :
              (Unavailable(powerbanks[p].id) /\ PBModels_rent(p, u, t))
                  => (resp'.success = FALSE /\ UNCHANGED data)
      ]_vars

\* C3 witness: PowerBank.rent was refused while no rental exists, so it was
\* called on the power bank under maintenance.
C3_Witness ==
    /\ variant = "pbmodels"
    /\ resp = [success |-> FALSE, message |-> "Power bank is not available"]
    /\ rentals = << >>
    /\ \E i \in DOMAIN powerbanks : powerbanks[i].status = "maintenance"

\* the rental with this id exists, is completed, and belongs to user_id
CompletedRentalOf(rental_id, user_id) ==
    \E i \in DOMAIN rentals : /\ rentals[i].id = rental_id
                              /\ rentals[i].user_id = user_id
                              /\ rentals[i].status = "completed"

\* the rental with this id exists, is active, and belongs to user_id
ActiveRentalOf(rental_id, user_id) ==
    \E i \in DOMAIN rentals : /\ rentals[i].id = rental_id
                              /\ rentals[i].user_id = user_id
                              /\ rentals[i].status = "active"

\* C4: a return of an active rental by its owner succeeds (200) and completes the
\* rental; a further return of the now completed rental fails with 400 and
\* leaves every rental (its end time included), power bank and station as it was.
\* (config.py, run.py, rentals/routes.py; run.py needs station_id in the body.)
C4_SecondReturnRefused ==
    [][ /\ variant = "config" => \A r \in 1..(MaxRentals + 1), t \in ClockReadings :
              /\ (CompletedRentalOf(r, Config_get_current_user.id)
                    /\ Config_return_powerbank(r, t))
                  => (resp'.status_code = 400 /\ UNCHANGED data)
              /\ (ActiveRentalOf(r, Config_get_current_user.id)
                    /\ Config_return_powerbank(r, t))
                  => (resp'.status_code = 200 /\ rentals'[r].status = "completed")
        /\ variant = "run" => \A c \in UserIds, r \in 1..(MaxRentals + 1), s \in 1..(MaxRows + 1),
              t \in ClockReadings :
              /\ (CompletedRentalOf(r, c) /\ Run_return_powerbank(c, r, s, t))
                  => (resp'.status_code = 400 /\ UNCHANGED data)
              /\ (ActiveRentalOf(r, c) /\ Run_return_powerbank(c, r, s, t))
                  => (resp'.status_code = 200 /\ rentals'[r].status = "completed")
        /\ variant = "routes" => \A c \in UserIds, r \in 1..(MaxRentals + 1), t \in ClockReadings :
              /\ ((\E u \in UserIds : CompletedRentalOf(r, u)) /\ Routes_return_rental(c, r, t))
                  => (resp'.status_code = 400 /\ UNCHANGED data)
              /\ (ActiveRentalOf(r, c) /\ Routes_return_rental(c, r, t))
                  => (resp'.status_code = 200 /\ rentals'[r].status = "completed")
      ]_vars

\* C4 witness: config.py has answered a second return of a completed rental.
C4_Witness ==
    /\ variant = "config"
    /\ resp = [status_code |-> 400, detail |-> "Rental is not active"]
    /\ \E i \in DOMAIN rentals : rentals[i].status = "completed"

\* the rental with this id exists, is active, and belongs to another user
ActiveRentalOfOther(rental_id, caller) ==
    \E i \in DOMAIN rentals : /\ rentals[i].id = rental_id
                              /\ rentals[i].user_id # caller
                              /\ rentals[i].status = "active"

\* C5: a return of an active rental by a user who is not its owner fails with
\* 403 and changes nothing.
C5_NonOwnerReturnForbidden ==
    [][ /\ variant = "run" => \A c \in UserIds, r \in 1..(MaxRentals + 1), s \in 1..(MaxRows + 1),
              t \in ClockReadings :
              (ActiveRentalOfOther(r, c) /\ Run_return_powerbank(c, r, s, t))
                  => (resp'.status_code = 403 /\ UNCHANGED data)
        /\ variant = "routes" => \A c \in UserIds, r \in 1..(MaxRentals + 1), t \in ClockReadings :
              (ActiveRentalOfOther(r, c) /\ Routes_return_rental(c, r, t))
                  => (resp'.status_code = 403 /\ UNCHANGED data)
      ]_vars

\* the status of the power bank with this id
StatusOf(pbs, powerbank_id) == pbs[FindById(pbs, powerbank_id)].status

CounterDelta(s) == stations'[s].powerbanks_available - stations[s].powerbanks_available

\* C8: in config.py a successful rent of power bank p lowers the counter of the
\* station that owns p by exactly one, a successful return of the rental raises
\* it by exactly one, and neither changes the counter of any other station.
C8_CounterMovesByOne ==
    [][ /\ variant = "config" => \A p \in 1..(MaxPowerbanks + 1), t \in ClockReadings :
              (Config_rent_powerbank(p, t) /\ resp'.status_code = 200) =>
                  /\ DOMAIN stations' = DOMAIN stations
                  /\ \A s \in DOMAIN stations :
                         CounterDelta(s) =
                             IF stations[s].id = powerbanks[FindById(powerbanks, p)].station_id
                             THEN -1 ELSE 0
        /\ variant = "config" => \A r \in 1..(MaxRentals + 1), t \in ClockReadings :
              (Config_return_powerbank(r, t) /\ resp'.status_code = 200) =>
                  /\ DOMAIN stations' = DOMAIN stations
                  /\ \A s \in DOMAIN stations :
                         CounterDelta(s) =
                             IF stations[s].id =
                                  powerbanks[FindById(powerbanks,
                                                      rentals[r].powerbank_id)].station_id
                             THEN 1 ELSE 0
      ]_vars

\* C8 witness: power bank 1 of station 1 was rented and returned, and the
\* counter of station 1 is back at 2.
C8_Witness ==
    /\ variant = "config"
    /\ resp = [status_code |-> 200, detail |-> "rental"]
    /\ \E i \in DOMAIN rentals : /\ rentals[i].status = "completed"
                                 /\ rentals[i].powerbank_id = 1
    /\ stations[1].powerbanks_available = 2

\* what an update leaves in a field: the supplied value, or the stored one
Updated(supplied, stored) == IF supplied # None THEN supplied ELSE stored

\* C10: in stations/routes.py every stored station has available_power_banks <=
\* capacity; a create or update by an admin that would break this is answered
\* 400 and leaves the table unchanged.
C10_AvailableWithinCapacity ==
    /\ [](variant = "stations" =>
              \A i \in DOMAIN stations :
                  stations[i].available_power_banks <= stations[i].capacity)
    /\ [][ /\ variant = "stations" => \A c \in CapValues, v \in CapValues :
                 (Stations_create_station(TRUE, c, v) /\ v > c)
                     => (resp'.status_code = 400 /\ UNCHANGED data)
           /\ variant = "stations" => \A i \in 1..(MaxRows + 1), c \in CapValues \cup {None},
                 v \in CapValues \cup {None} :
                 ( /\ Stations_update_station(TRUE, i, c, v)
                   /\ FindById(stations, i) # 0
                   /\ Updated(v, stations[FindById(stations, i)].available_power_banks)
                        > Updated(c, stations[FindById(stations, i)].capacity) )
                     => (resp'.status_code = 400 /\ UNCHANGED data)
         ]_vars

\* C10 witness: an update that lowers only the capacity below the stored
\* available count has been refused.
C10_Witness ==
    /\ variant = "stations"
    /\ resp = [status_code |-> 400,
               detail |-> "Capacity cannot be less than available power banks"]
    /\ \E i \in DOMAIN stations : stations[i].available_power_banks > 0

\* the active rentals of the user with this id
ActiveRentalsOfUser(user_id) ==
    {i \in DOMAIN rentals : rentals[i].user_id = user_id /\ rentals[i].status = "active"}

\* C11: in run.py no user ever holds more than one active rental, and a /rent by
\* a user who has an active rental answers 400, adds no rental and leaves the
\* requested power bank (and all other data) as it was.
C11_OneActiveRentalPerUser ==
    /\ [](variant = "run" =>
              \A u \in UserIds : Cardinality(ActiveRentalsOfUser(u)) <= 1)
    /\ [][ variant = "run" =>
              \A c \in UserIds, p \in 1..(MaxRows + 1), t \in ClockReadings :
                  (ActiveRentalsOfUser(c) # {} /\ Run_rent_powerbank(c, p, t))
                      => (resp'.status_code = 400 /\ UNCHANGED data)
         ]_vars

\* C11 witness: a user with an active rental asked for a second, available power
\* bank and was refused by the one-rental test.
C11_Witness ==
    /\ variant = "run"
    /\ resp = [status_code |-> 400, detail |-> "You already have an active rental"]
    /\ \E i \in DOMAIN rentals : rentals[i].status = "active"
    /\ \E i \in DOMAIN powerbanks : powerbanks[i].status = "available"

\* the start and end time of a rental row, under the column names of the variant
StartOf(rental) ==
    IF variant = "run" THEN rental.rent_time
    ELSE IF variant = "ext" THEN rental.rental_time
    ELSE rental.start_time

EndOf(rental) ==
    IF variant \in {"run", "ext"} THEN rental.return_time ELSE rental.end_time

C13_RentalOnlyCompletes ==
    [][ /\ Len(rentals') >= Len(rentals)
        /\ \A i \in DOMAIN rentals :
               /\ rentals'[i].id = rentals[i].id
               /\ rentals[i].status = "completed" => rentals'[i] = rentals[i]
               /\ rentals'[i].status # rentals[i].status
                      => (rentals[i].status = "active" /\ rentals'[i].status = "completed")
      ]_vars

\* C13 witness: rentals/routes.py was asked to return a completed rental again
\* and refused.
C13_Witness ==
    /\ variant = "routes"
    /\ resp = [status_code |-> 400, detail |-> "Rental is not active"]
    /\ \E i \in DOMAIN rentals : /\ rentals[i].status = "completed"
                                 /\ rentals[i].end_time = rentals[i].start_time

\* the variants whose power banks carry a status
StatusVariants == {"config", "rmodels", "init", "pbmodels", "run", "ext"}

\* C14: a step changes the status of an existing power bank only from available
\* to rented or from rented to available, so no rent or return puts a power bank
\* into maintenance or takes one out of it; a power bank under maintenance
\* appears only as a new row made by config.py's create_powerbank.
C14_MaintenanceUntouched ==
    [][ (variant \in StatusVariants) =>
          /\ \A i \in DOMAIN powerbanks :
                 powerbanks'[i].status # powerbanks[i].status
                     => \/ ( /\ powerbanks[i].status = "available"
                             /\ powerbanks'[i].status = "rented" )
                        \/ ( /\ powerbanks[i].status = "rented"
                             /\ powerbanks'[i].status = "available" )
          /\ \A i \in DOMAIN powerbanks' :
                 (i \notin DOMAIN powerbanks /\ powerbanks'[i].status = "maintenance")
                     => \E st \in 1..MaxStations :
                            Config_create_powerbank(st, "maintenance")
      ]_vars

\* C14 witness: config.py holds a power bank under maintenance made by
\* create_powerbank while a rental has been started and returned.
C14_Witness ==
    /\ variant = "config"
    /\ \E i \in DOMAIN powerbanks : powerbanks[i].status = "maintenance"
    /\ \E i \in DOMAIN rentals : rentals[i].status = "completed"

\* no power bank has this id
Unknown(powerbank_id) == FindById(powerbanks, powerbank_id) = 0

\* C15: a rent that names a power bank id that does not exist answers 404 and
\* changes no data (config.py, __init__.py, run.py).
C15_UnknownPowerbankNotFound ==
    [][ /\ variant = "config" => \A p \in 1..(MaxPowerbanks + 1), t \in ClockReadings :
              (Unknown(p) /\ Config_rent_powerbank(p, t))
                  => (resp'.status_code = 404 /\ UNCHANGED data)
        /\ variant = "init" => \A p \in 1..(MaxPowerbanks + 1), t \in ClockReadings :
              (Unknown(p) /\ AppInit_create_rental(p, t))
                  => (resp'.status_code = 404 /\ UNCHANGED data)
        /\ variant = "run" => \A c \in UserIds, p \in 1..(MaxRows + 1), t \in ClockReadings :
              (Unknown(p) /\ Run_rent_powerbank(c, p, t))
                  => (resp'.status_code = 404 /\ UNCHANGED data)
      ]_vars

\* C16: with config.py's handlers running concurrently, in every state that
\* another request can read, every active rental's power bank is rented and the
\* counter of station 1 equals the number of its available power banks.
C16_NoPartialUpdate ==
    /\ \A i \in DOMAIN rentals :
           rentals[i].status = "active"
               => StatusOf(powerbanks, rentals[i].powerbank_id) = "rented"
    /\ stations[1].powerbanks_available = Cardinality(AvailableAt(stations[1].id))

\* C17: in the Flask blueprints (rentals/routes.py, powerbanks/routes.py) no
\* power bank is referenced by more than one active rental.
C17_OneActiveRentalPerPowerbank ==
    variant = "routes" =>
        \A i \in DOMAIN powerbanks :
            Cardinality(ActiveRentalsOf(powerbanks[i].id)) <= 1

\* the rows of the answer to a list request
Listed == {resp'.rentals[i] : i \in DOMAIN resp'.rentals}

\* the stored rentals of this user, with this status when a filter is given ("")
Matching(user_id, status) ==
    {rentals[i] : i \in {j \in DOMAIN rentals :
                            /\ rentals[j].user_id = user_id
                            /\ status = "" \/ rentals[j].status = status}}

\* C18: a list request changes no data and, for a given user, answers 200 with
\* exactly the rentals of that user, narrowed to the status filter when one is
\* given, each once: config.py get_rentals and get_active_rentals, run.py
\* get_rentals, rentals/routes.py get_rentals with a user_id.
C18_ListRentalsExact ==
    [][ /\ variant = "config" =>
              /\ Config_get_rentals =>
                     /\ UNCHANGED data
                     /\ Listed = Matching(Config_get_current_user.id, "")
                     /\ Len(resp'.rentals) = Cardinality(Listed)
              /\ Config_get_active_rentals =>
                     /\ UNCHANGED data
                     /\ Listed = Matching(Config_get_current_user.id, "active")
                     /\ Len(resp'.rentals) = Cardinality(Listed)
        /\ variant = "run" => \A c \in UserIds :
              Run_get_rentals(c) =>
                  /\ UNCHANGED data
                  /\ Listed = Matching(c, "")
                  /\ Len(resp'.rentals) = Cardinality(Listed)
        /\ variant = "routes" => \A u \in IdTexts, st \in StatusFilters :
              (ParseInt(u) # None /\ Routes_get_rentals(u, st)) =>
                  /\ UNCHANGED data
                  /\ resp'.status_code = 200
                  /\ Listed = Matching(ParseInt(u), st)
                  /\ Len(resp'.rentals) = Cardinality(Listed)
      ]_vars

\* C18 witness: rentals/routes.py holds two rentals of equal status of two users
\* and has answered a list request with the first of them alone.
C18_Witness ==
    /\ variant = "routes"
    /\ Len(rentals) = 2
    /\ rentals[1].user_id # rentals[2].user_id
    /\ rentals[1].status = rentals[2].status
    /\ resp = [status_code |-> 200, rentals |-> << rentals[1] >>]

\* C19: in run.py a /rent by a user without active rental on an existing,
\* available power bank answers 201, appends exactly one rental, active, of
\* that user and that power bank, changes no other rental, and leaves the
\* power bank rented.
C19_RunRentSucceeds ==
    [][ variant = "run" =>
          \A c \in UserIds, p \in 1..(MaxRows + 1), t \in ClockReadings :
              ( /\ ~Unknown(p)
                /\ StatusOf(powerbanks, p) = "available"
                /\ ActiveRentalsOfUser(c) = {}
                /\ Run_rent_powerbank(c, p, t) )
              => /\ resp'.status_code = 201
                 /\ Len(rentals') = Len(rentals) + 1
                 /\ \A i \in DOMAIN rentals : rentals'[i] = rentals[i]
                 /\ rentals'[Len(rentals')].status = "active"
                 /\ rentals'[Len(rentals')].user_id = c
                 /\ rentals'[Len(rentals')].power_bank_id = p
                 /\ StatusOf(powerbanks', p) = "rented"
      ]_vars

\* C19 witness: run.py has answered a /rent of the second user with 201.
C19_Witness ==
    /\ variant = "run"
    /\ resp = [status_code |-> 201, detail |-> "Power bank rented successfully"]
    /\ rentals # << >>
    /\ rentals[Len(rentals)].user_id = 2
    /\ rentals[Len(rentals)].status = "active"

\* the payments stored for the rental with this id
PaymentsOf(pays, rental_id) == {i \in DOMAIN pays : pays[i].rental_id = rental_id}

\* C20: in run.py a /return that carries a station_id, sent by the owner of an
\* active rental, answers 200; afterwards the rental is completed with its
\* return time set, its power bank is available at that station, and exactly
\* one payment, new and pending, exists for the rental.
C20_RunReturnSucceeds ==
    [][ variant = "run" =>
          \A c \in UserIds, r \in 1..(MaxRentals + 1), s \in 1..(MaxRows + 1),
             t \in ClockReadings :
              (ActiveRentalOf(r, c) /\ Run_return_powerbank(c, r, s, t))
              => /\ resp'.status_code = 200
                 /\ rentals'[r].status = "completed"
                 /\ rentals'[r].return_time # None
                 /\ StatusOf(powerbanks', rentals[r].power_bank_id) = "available"
                 /\ powerbanks'[FindById(powerbanks, rentals[r].power_bank_id)].station_id = s
                 /\ PaymentsOf(payments, r) = {}
                 /\ PaymentsOf(payments', r) = {Len(payments')}
                 /\ payments'[Len(payments')].status = "pending"
                 /\ Len(payments') = Len(payments) + 1
      ]_vars

\* C20 witness: run.py has answered a /return with 200 and holds the pending
\* payment of the completed rental.
C20_Witness ==
    /\ variant = "run"
    /\ resp = [status_code |-> 200, detail |-> "Power bank returned successfully"]
    /\ \E i \in DOMAIN rentals :
           /\ rentals[i].status = "completed"
           /\ \E y \in DOMAIN payments : /\ payments[y].rental_id = rentals[i].id
                                         /\ payments[y].status = "pending"

\* the user who owns the rental of the payment at index y
PayerOf(y) == rentals[FindById(rentals, payments[y].rental_id)].user_id

\* C21: in run.py /pay by the owner of the payment's rental answers 200 and
\* makes the payment completed; by another user it answers 403 and for an
\* unknown id 404, both changing nothing; no step of run.py takes a payment
\* from completed back to pending.
C21_PaymentByOwnerOnly ==
    [][ variant = "run" =>
          /\ \A c \in UserIds, y \in 1..(MaxRentals + 1) :
                 Run_process_payment(c, y) =>
                     IF y \notin DOMAIN payments
                     THEN resp'.status_code = 404 /\ UNCHANGED data
                     ELSE IF PayerOf(y) = c
                     THEN /\ resp'.status_code = 200
                          /\ payments'[y].status = "completed"
                          /\ \A z \in DOMAIN payments \ {y} : payments'[z] = payments[z]
                     ELSE resp'.status_code = 403 /\ UNCHANGED data
          /\ \A y \in DOMAIN payments :
                 payments[y].status = "completed" => payments'[y].status = "completed"
      ]_vars

\* C21 witness: run.py has refused a /pay of a user who does not own the
\* payment's rental, and the payment is still pending.
C21_Witness ==
    /\ variant = "run"
    /\ resp = [status_code |-> 403, detail |-> "Unauthorized"]
    /\ \E y \in DOMAIN payments : payments[y].status = "pending"

\* C22: station and power-bank creation are admin-only in run.py and config.py:
\* a caller who is not an admin gets 403 and nothing is created; an admin's
\* add-power-bank creates exactly one available power bank at an existing
\* station, and for an unknown station answers 404 and creates nothing.
C22_AdminOnlyCreation ==
    [][ /\ variant = "run" =>
              /\ \A c \in UserIds, complete \in BOOLEAN :
                     (~Run_IsAdmin(c) /\ Run_add_station(c, complete))
                         => (resp'.status_code = 403 /\ UNCHANGED data)
              /\ \A c \in UserIds, st \in 1..(MaxRows + 1) :
                     Run_add_powerbank(c, st) =>
                         IF ~Run_IsAdmin(c)
                         THEN resp'.status_code = 403 /\ UNCHANGED data
                         ELSE IF FindById(stations, st) = 0
                         THEN resp'.status_code = 404 /\ UNCHANGED data
                         ELSE /\ resp'.status_code = 201
                              /\ Len(powerbanks') = Len(powerbanks) + 1
                              /\ powerbanks'[Len(powerbanks')].status = "available"
                              /\ powerbanks'[Len(powerbanks')].station_id = st
        /\ variant = "config" =>
              \A st \in 1..MaxStations :
                  Config_create_powerbank(st, "available") =>
                      IF ~Config_get_current_admin
                      THEN resp'.status_code = 403 /\ UNCHANGED data
                      ELSE IF FindById(stations, st) = 0
                      THEN resp'.status_code = 404 /\ UNCHANGED data
                      ELSE /\ resp'.status_code = 200
                           /\ Len(powerbanks') = Len(powerbanks) + 1
                           /\ powerbanks'[Len(powerbanks')].status = "available"
                           /\ powerbanks'[Len(powerbanks')].station_id = st
      ]_vars

\* the username or the email is held by a stored user
InUse(username, email) ==
    \E i \in DOMAIN users : users[i].username = username \/ users[i].email = email

\* C23: in run.py no two users share a username or an email; a /register with
\* all fields and a username and email not in use answers 201 and appends
\* exactly one user, any other /register answers 400 and creates no user.
C23_RegisterKeepsUsersUnique ==
    /\ [](variant = "run" =>
              \A i \in DOMAIN users, j \in DOMAIN users :
                  i # j => /\ users[i].username # users[j].username
                           /\ users[i].email # users[j].email)
    /\ [][ variant = "run" =>
              \A u \in Usernames \cup {""}, pw \in {"", "password"}, e \in Emails \cup {""} :
                  Run_register(u, pw, e) =>
                      IF u = "" \/ pw = "" \/ e = "" \/ InUse(u, e)
                      THEN resp'.status_code = 400 /\ UNCHANGED data
                      ELSE /\ resp'.status_code = 201
                           /\ Len(users') = Len(users) + 1
                           /\ \A i \in DOMAIN users : users'[i] = users[i]
                           /\ users'[Len(users')].username = u
                           /\ users'[Len(users')].email = e
                           /\ UNCHANGED <<stations, powerbanks, rentals, payments>>
         ]_vars

\* C23 witness: run.py holds a registered user next to the admin and has
\* refused a further /register.
C23_Witness ==
    /\ variant = "run"
    /\ Len(users) = 2
    /\ users[2].username = "user1"
    /\ resp = [status_code |-> 400, detail |-> "refused"]

\* the balance of the user with this id in the table us
BalanceOf(us, user_id) == us[FindById(us, user_id)].balance

IsIntegerValue(x) == x \in {"1", "2", "3"}

C25_CreateRentalCheckOrder ==
    [][ variant = "routes" =>
          \A u \in JsonIds, p \in JsonIds, t \in ClockReadings :
              Routes_create_rental(u, p, t) =>
                  IF ~IsIntegerValue(u) \/ ~IsIntegerValue(p)
                  THEN resp'.status_code = 400 /\ UNCHANGED data
                  ELSE IF FindById(users, ParseInt(u)) = 0
                  THEN resp'.status_code = 404 /\ UNCHANGED data
                  ELSE IF Unknown(ParseInt(p))
                  THEN resp'.status_code = 404 /\ UNCHANGED data
                  ELSE IF ~powerbanks[FindById(powerbanks, ParseInt(p))].is_available
                  THEN resp'.status_code = 400 /\ UNCHANGED data
                  ELSE resp'.status_code = 201
      ]_vars

\* the power bank has a rental that is still active
HasActiveRental(powerbank_id) ==
    \E i \in DOMAIN rentals : /\ rentals[i].powerbank_id = powerbank_id
                              /\ rentals[i].status = "active"

\* C26: in powerbanks/models.py rent never changes a current_charge; a
\* return_powerbank on a power bank without an active rental returns False and
\* leaves every power bank and every rental as it was; a return_powerbank on a
\* power bank with an active rental returns True, sets that power bank's
\* current_charge to the value supplied and leaves every other charge alone.
C26_ChargeOnlyOnReturn ==
    [][ variant = "pbmodels" =>
          /\ \A p \in 1..2, u \in UserIds, t \in ClockReadings :
                 PBModels_rent(p, u, t) =>
                     \A i \in DOMAIN powerbanks :
                         powerbanks'[i].current_charge = powerbanks[i].current_charge
          /\ \A p \in 1..2, c \in Charges, t \in ClockReadings :
                 PBModels_return_powerbank(p, c, t) =>
                     IF HasActiveRental(powerbanks[p].id)
                     THEN /\ resp'.success
                          /\ powerbanks'[p].current_charge = c
                          /\ \A i \in DOMAIN powerbanks : i # p =>
                                 powerbanks'[i].current_charge = powerbanks[i].current_charge
                     ELSE /\ ~resp'.success
                          /\ UNCHANGED <<powerbanks, rentals>>
      ]_vars

\* C26 witness: power bank 1 came back with a charge other than its first one,
\* and a later return_powerbank found no active rental.
C26_Witness ==
    /\ variant = "pbmodels"
    /\ resp = [success |-> FALSE, message |-> "No active rental found"]
    /\ powerbanks[1].current_charge # MaxCharge
    /\ \E i \in DOMAIN rentals : rentals[i].status = "completed"

\* the number of rentals the user has started
RentalsStartedBy(rs, user_id) ==
    Cardinality({i \in DOMAIN rs : rs[i].user_id = user_id})

\* what the user's balance was before any of the user's rentals
InitialBalance(us, rs, user_id) ==
    BalanceOf(us, user_id) + Ext_rental_cost * RentalsStartedBy(rs, user_id)

\* C27: in extensions.py, with requests handled one at a time, no balance is
\* ever negative, and every user's balance is the balance the user started with
\* less the rental cost times the number of rentals the user has started: the
\* sum balance + 10 * rentals started is a starting balance (0 for a registered
\* user) and no step changes it.
C27_BalanceAccounting ==
    /\ [](variant = "ext" =>
             \A i \in DOMAIN users :
                 /\ users[i].balance >= 0
                 /\ InitialBalance(users, rentals, users[i].id) \in
                        (IF i <= MaxUsers THEN Ext_Balances ELSE {0}))
    /\ [][ variant = "ext" =>
             \A i \in DOMAIN users :
                 InitialBalance(users', rentals', users[i].id)
                     = InitialBalance(users, rentals, users[i].id)
         ]_vars

\* C27 witness: a user who has started a rental is refused the next one for
\* want of balance.
C27_Witness ==
    /\ variant = "ext"
    /\ resp = [status_code |-> 400, detail |-> "Insufficient balance"]
    /\ \E i \in DOMAIN users :
           /\ RentalsStartedBy(rentals, users[i].id) > 0
           /\ users[i].balance < Ext_rental_cost

\* the number of power banks of a station that are available
AvailableCount(pbs, station_id) ==
    Cardinality({i \in DOMAIN pbs : /\ pbs[i].station_id = station_id
                                    /\ pbs[i].status = "available"})

\* C28: in config.py, with requests handled one at a time, every step changes
\* the stored counter of every existing station by exactly the amount by which
\* it changes the number of available power banks of that station (rent: both
\* fall by one at the owning station; return: both rise by one; create_powerbank:
\* both rise by one for an available power bank, neither moves otherwise).
C28_CounterTracksAvailable ==
    [][ variant = "config" =>
          \A s \in DOMAIN stations :
              /\ s \in DOMAIN stations'
              /\ stations'[s].id = stations[s].id
              /\ CounterDelta(s) =
                     AvailableCount(powerbanks', stations[s].id)
                         - AvailableCount(powerbanks, stations[s].id)
      ]_vars

\* C28 witness: station 1 has been through a rent, a return and the creation
\* of a power bank that is not available.
C28_Witness ==
    /\ variant = "config"
    /\ Len(powerbanks) = MaxPowerbanks
    /\ powerbanks[MaxPowerbanks].station_id = 1
    /\ powerbanks[MaxPowerbanks].status = "maintenance"
    /\ \E i \in DOMAIN rentals : /\ rentals[i].status = "completed"
                                 /\ rentals[i].powerbank_id = 1
    /\ \E i \in DOMAIN rentals : /\ rentals[i].status = "active"
                                 /\ rentals[i].powerbank_id = 2

\* the in-memory ledgers that number rentals by the length of the list
InMemoryVariants == {"config", "rmodels", "init"}

\* a step that changes no rental except the one at index r
OnlyRentalChanged(r) ==
    /\ Len(rentals') = Len(rentals)
    /\ \A i \in DOMAIN rentals : i # r => rentals'[i] = rentals[i]

\* C29: in config.py, rentals/models.py and app/__init__.py, with requests
\* handled one at a time, the rental ids are 1..n in creation order (the rental
\* at position i of the list has id i, so ids are pairwise distinct), every
\* step keeps the rentals already made at their positions, and a return that
\* answers 200 changes the one rental with the requested id and no other.
C29_RentalIdsSequential ==
    /\ [](variant \in InMemoryVariants =>
             \A i \in DOMAIN rentals : rentals[i].id = i)
    /\ [][ (variant \in InMemoryVariants) =>
             /\ Len(rentals') >= Len(rentals)
             /\ \A i \in DOMAIN rentals : rentals'[i].id = rentals[i].id
             /\ variant = "config" => \A r \in 1..(MaxRentals + 1), t \in ClockReadings :
                    (Config_return_powerbank(r, t) /\ resp'.status_code = 200) =>
                        (rentals[r].id = r /\ rentals'[r] # rentals[r] /\ OnlyRentalChanged(r))
             /\ variant = "rmodels" => \A r \in 1..(MaxRentals + 1), t \in ClockReadings :
                    (RModels_return_powerbank(r, t) /\ resp'.status_code = 200) =>
                        (rentals[r].id = r /\ rentals'[r] # rentals[r] /\ OnlyRentalChanged(r))
             /\ variant = "init" => \A r \in 1..(MaxRentals + 1), t \in ClockReadings :
                    (AppInit_return_powerbank(r, t) /\ resp'.status_code = 200) =>
                        (rentals[r].id = r /\ rentals'[r] # rentals[r] /\ OnlyRentalChanged(r))
         ]_vars

\* C29 witness: config.py holds two rentals and the second has been returned.
C29_Witness ==
    /\ variant = "config"
    /\ Len(rentals) = 2
    /\ rentals[2].id = 2
    /\ rentals[2].status = "completed"
    /\ resp = [status_code |-> 200, detail |-> "rental"]

\* C30: in run.py every power bank's station_id is the id of a station in the
\* station table, whatever add_station, add_powerbank, /rent and /return
\* requests have been served.
C30_PowerbankStationExists ==
    variant = "run" =>
        \A i \in DOMAIN powerbanks :
            \E s \in DOMAIN stations : stations[s].id = powerbanks[i].station_id

====
